---- MODULE Spec2Model ----
(***************************************************************************)
(* The event bus (MessageBox) and the connection supervisors (World and    *)
(* Client) of irc_bot, as a state machine.                                  *)
(*                                                                         *)
(* A supervisor is an actor: it handles one message at a time, to          *)
(* completion, so every handler is one atomic action.  Its pending work    *)
(* sits in two FIFO queues: `mailbox' (messages other parties sent to its  *)
(* address) and `notified' (messages it sent to itself with ctx.notify).   *)
(* Which of the two the runtime serves next is not fixed by the source     *)
(* and is left open.                                                       *)
(***************************************************************************)
EXTENDS Integers, Sequences, FiniteSets, TLC

\* ----------------------------------------------------------------- bounds
MaxFrames == 2      \* frames the inbound stream yields
MaxRequests == 2    \* Registration<M> requests sent to a World / register
                    \* calls made by before_start on a Client's Registration
MaxQuits == 1       \* Quit messages sent to the supervisor
MaxOps == 4         \* register/unregister calls on a bare MessageBox
MaxCommands == 2    \* commands, signals and panics sent to the supervisor

\* Subscriber actors.  A Recipient<M> is the address of an actor narrowed to
\* the message type M; two recipients are equal when they are the same actor.
Handles == {"H1", "H2"}

\* Message types published through the MessageBox.
Types == {"Connected", "RawMessage", "NotRegistered", "PrivateMessageReceived"}

Impls == {"World", "Client"}

\* Inbound frames (irc::proto::Message): the command with its arguments.
F_INFO == [command |-> "INFO", args |-> <<>>, suffix |-> "None"]
F_NOTREG == [command |-> "ERR_NOTREGISTERED", args |-> <<"*", "nick">>,
             suffix |-> "You have not registered"]
F_PRIVMSG == [command |-> "PRIVMSG", args |-> <<"#rust-bots", "hello">>,
              suffix |-> "None"]
Frames == {F_INFO, F_NOTREG, F_PRIVMSG}

QuitReasons == {"bye", "Leaving..."}

\* The commands a caller sends the supervisor, with the call each makes on
\* the IRC session and the context its failure is reported with.
Commands == {"PrivateMessage", "Join", "Identify"}

SessionCall ==
    [PrivateMessage |-> "send_privmsg", Join |-> "send_join",
     Identify |-> "identify"]

FailureContext ==
    [PrivateMessage |-> "Unable to send a private message",
     Join |-> "Unable to join", Identify |-> "Unable to identify"]

\* PanicHook guards: each is made once by PanicHook::new and dropped once.
Guards == {"G1", "G2", "G3"}

\* ------------------------------------------------------------- the events
Connected == [type |-> "Connected", payload |-> "unit"]

RawMessage(f) == [type |-> "RawMessage", payload |-> f]

NotRegistered(args, suffix) ==
    [type |-> "NotRegistered", payload |-> [args |-> args, suffix |-> suffix]]

PrivateMessageReceived(target, content, raw) ==
    [type |-> "PrivateMessageReceived",
     payload |-> [msg_target |-> target, content |-> content, raw |-> raw]]

VARIABLES
    impl,           \* which supervisor this instance is: World or Client
    hooks,          \* World.hooks / Client.message_box: type -> Vec<Recipient>
    message_count,  \* World.message_count / Client.msg_count
    mailbox,        \* messages sent to the supervisor's address, FIFO
    notified,       \* messages the supervisor sent to itself (ctx.notify)
    listening,      \* number of inbound streams attached (World)
    spawned,        \* spawn_client has sent the Registration (Client)
    inbox,          \* per subscriber: the events waiting in its mailbox
    closed,         \* subscribers whose mailbox is closed (actor stopped)
    faulty,         \* subscribers a delivery to which panics
    crashed,        \* a panic unwound out of a supervisor handler
    system,         \* the actix System: running, or stopped with a code
    oops,           \* Oops messages waiting in the error logger's mailbox
    last,           \* history: what the step just taken did, if a handler ran
    subscribed,     \* history: per type, the handles whose registration holds
    history,        \* history: the calls made on a bare MessageBox
    count,          \* history: frames handled, events published so far
    nframes,        \* frames the stream has yielded so far
    nreq,           \* Registration requests sent so far
    nquit,          \* Quit messages sent so far
    arbiter,        \* the Arbiter hosting the supervisor: running, or stopped
    replies,        \* results of commands on their way back to the caller
    hook,           \* the process-wide panic handler installed (std::panic)
    guards,         \* per PanicHook guard: not made, live (its previous
                    \* handler), or dropped
    ncmd,           \* commands, signals and panics the environment has sent
    collect,        \* the stream MessageBox::do_send returned: requests not
                    \* yet made or answered, and the results yielded
    bot             \* the Bot of bot.rs: where its Handler<Connected> stands

vars == <<impl, hooks, message_count, mailbox, notified, listening, spawned,
          inbox, closed, faulty, crashed, system, oops, last, subscribed,
          history, count, nframes, nreq, nquit, arbiter, replies, hook,
          guards, ncmd, collect, bot>>

\* ------------------------------------------------------------ MessageBox
\* MessageBox::new: an AnyMap with no entry.
MessageBox_new == [t \in {} |-> <<>>]

\* A register that puts the new recipient in front of the others.
register_front(box, t, recipient) ==
    LET recipients == IF t \in DOMAIN box THEN box[t] ELSE <<>>
    IN [x \in (DOMAIN box) \cup {t} |->
            IF x = t THEN <<recipient>> \o recipients ELSE box[x]]

\* MessageBox::register: entry::<Vec<Recipient<M>>>().or_insert_with(default),
\* then push.
register(box, t, recipient) ==
    LET recipients == IF t \in DOMAIN box THEN box[t] ELSE <<>>
    IN [x \in (DOMAIN box) \cup {t} |->
            IF x = t THEN Append(recipients, recipient) ELSE box[x]]

\* Iterator::position: the index of the first element equal to r, 0 for None.
position(recipients, r) ==
    IF \E i \in 1..Len(recipients) : recipients[i] = r
    THEN CHOOSE i \in 1..Len(recipients) :
            /\ recipients[i] = r
            /\ \A j \in 1..(i - 1) : recipients[j] # r
    ELSE 0

\* Vec::swap_remove(ix): the last element takes the place of the removed one.
swap_remove(recipients, ix) ==
    IF ix = Len(recipients) THEN SubSeq(recipients, 1, ix - 1)
    ELSE [i \in 1..(Len(recipients) - 1) |->
            IF i = ix THEN recipients[Len(recipients)] ELSE recipients[i]]

\* Vec::remove(ix): the elements after ix shift down by one.
remove(recipients, ix) ==
    SubSeq(recipients, 1, ix - 1) \o SubSeq(recipients, ix + 1, Len(recipients))

\* MessageBox::unregister.
\* An unregister that takes the recipient out of the list of every type.
unregister_every_type(box, t, recipient) ==
    [x \in DOMAIN box |->
        LET ix == position(box[x], recipient)
        IN IF ix # 0 THEN remove(box[x], ix) ELSE box[x]]

unregister(box, t, recipient) ==
    IF t \in DOMAIN box
    THEN LET ix == position(box[t], recipient)
         IN IF ix # 0 THEN [box EXCEPT ![t] = remove(box[t], ix)] ELSE box
    ELSE box

\* An apply that takes the flag the wrong way round.
apply_inverted(msg, message_box) ==
    IF msg.register
    THEN unregister(message_box, msg.type, msg.recipient)
    ELSE register(message_box, msg.type, msg.recipient)

\* Registration::apply.
apply(msg, message_box) ==
    IF msg.register
    THEN register(message_box, msg.type, msg.recipient)
    ELSE unregister(message_box, msg.type, msg.recipient)

\* MessageBox::len and MessageBox::is_empty: the number of entries of the map.
len(box) == Cardinality(DOMAIN box)

is_empty(box) == DOMAIN box = {}

\* Recipient::do_send: the message is put in the actor's mailbox; the error
\* for a closed mailbox is returned to the caller.  A delivery to a faulty
\* subscriber panics.
do_send(r) ==
    IF r \in faulty THEN "panic" ELSE IF r \in closed THEN "closed" ELSE "ok"

\* The loop of MessageBox::send from the i-th recipient on: the do_send calls
\* it makes, in order; a panic ends the loop.
RECURSIVE sendLoop(_, _)
sendLoop(recipients, i) ==
    IF i > Len(recipients) THEN <<>>
    ELSE LET res == do_send(recipients[i])
             call == [to |-> recipients[i], res |-> res]
         IN IF res = "panic" THEN <<call>>
            ELSE <<call>> \o sendLoop(recipients, i + 1)

\* The fan-out walking the recipients from the newest to the oldest.
send_newest_first(box, t) ==
    IF t \in DOMAIN box
    THEN sendLoop([i \in 1..Len(box[t]) |-> box[t][Len(box[t]) + 1 - i]], 1)
    ELSE <<>>

\* A fan-out that does not look at the type: every recipient of the box.
send_any_type(box, t) ==
    sendLoop((IF "Connected" \in DOMAIN box THEN box["Connected"] ELSE <<>>)
             \o (IF "RawMessage" \in DOMAIN box THEN box["RawMessage"]
                 ELSE <<>>)
             \o (IF "NotRegistered" \in DOMAIN box THEN box["NotRegistered"]
                 ELSE <<>>), 1)

\* A fan-out that unwraps the entry of the type: with no entry it panics.
send_unwrap(box, t) ==
    IF t \in DOMAIN box THEN sendLoop(box[t], 1)
    ELSE <<[to |-> "None", res |-> "panic"]>>

\* MessageBox::send: the calls made for a message of type t.
send(box, t) ==
    IF t \in DOMAIN box THEN sendLoop(box[t], 1) ELSE <<>>

Panicked(calls) == \E i \in 1..Len(calls) : calls[i].res = "panic"

\* The effect of the calls on the subscribers' mailboxes.
RECURSIVE Deliver(_, _, _)
Deliver(inb, calls, ev) ==
    IF calls = <<>> THEN inb
    ELSE LET c == Head(calls)
             nxt == IF c.res = "ok"
                    THEN [inb EXCEPT ![c.to] = Append(@, ev)]
                    ELSE inb
         IN Deliver(nxt, Tail(calls), ev)

\* A collecting broadcast that asks the first recipient only.
do_send_first_only(box, t) ==
    IF t \in DOMAIN box /\ box[t] # <<>>
    THEN <<[to |-> box[t][1], state |-> "made"]>>
    ELSE <<>>

\* MessageBox::do_send: one recipient.send(msg.clone()) request per entry of
\* the type's list (none when the map has no entry), handed to
\* futures_unordered.  A request is made, then sent when the stream is first
\* polled, then done when its result has been yielded.
MessageBox_do_send(box, t) ==
    LET recipients == IF t \in DOMAIN box THEN box[t] ELSE <<>>
    IN [i \in 1..Len(recipients) |-> [to |-> recipients[i], state |-> "made"]]

\* ----------------------------------------------- the registry's contract
\* register(event_type, handle): the handle is appended to the type's list.
Registered(list, h) == list \o <<h>>

\* unregister(event_type, handle): the first handle equal to it is removed.
RECURSIVE Unregistered(_, _)
Unregistered(list, h) ==
    IF list = <<>> THEN <<>>
    ELSE IF Head(list) = h THEN Tail(list)
    ELSE <<Head(list)>> \o Unregistered(Tail(list), h)

\* The lists after one more call.
Applied(lists, op) ==
    [lists EXCEPT ![op.type] = IF op.register THEN Registered(@, op.recipient)
                               ELSE Unregistered(@, op.recipient)]

NoSubscriber == [t \in Types |-> <<>>]

\* The lists after a sequence of calls, from no subscriber at all.
RECURSIVE Replay(_)
Replay(ops) ==
    IF ops = <<>> THEN NoSubscriber
    ELSE Applied(Replay(SubSeq(ops, 1, Len(ops) - 1)), ops[Len(ops)])

\* ------------------------------------------------- the supervisor's queues
\* The messages a World accepts Registration<M> for (allow_registration!).
WorldRegistrable == {"RawMessage", "Connected"}

\* The BotMessage types a Client's Registration can register.
BotMessages == {"Connected", "RawMessage", "NotRegistered"}

\* Registration<M>::register / Registration<M>::unregister (World).
Registration(t, recipient, reg) ==
    [kind |-> "Registration", type |-> t, recipient |-> recipient,
     register |-> reg]

\* The register calls before_start may make on a Client's Registration.
RegisterCalls ==
    [type : BotMessages, recipient : Handles, register : {TRUE}]

CallSeqs(n) == UNION {[1..k -> RegisterCalls] : k \in 0..n}

\* client::Registration::register, call after call, on MessageBox::new().
RECURSIVE BuildBox(_)
BuildBox(ops) ==
    IF ops = <<>> THEN MessageBox_new
    ELSE LET o == ops[Len(ops)]
         IN register(BuildBox(SubSeq(ops, 1, Len(ops) - 1)), o.type,
                     o.recipient)

Pending(kind) == \E i \in 1..Len(mailbox) : mailbox[i].kind = kind

\* The owner of the supervisor's address sends it one request at a time and
\* waits for the reply (sys.block_on(world.send(..)) in world.rs's tests).
\* The mailbox is FIFO, so its requests are handled in the order sent.
Replied ==
    \A i \in 1..Len(mailbox) :
        mailbox[i].kind \notin {"StartListening", "Quit"}
        /\ (impl = "World" => mailbox[i].kind # "Registration")

\* The supervisor's event loop runs while the System runs, the Arbiter that
\* hosts it has not been stopped and no panic has unwound through it.
Running == system.running /\ arbiter.running /\ ~crashed

Oops_new(context) == [kind |-> "Oops", fatal |-> FALSE, context |-> context]

Oops_fatal(context) == [kind |-> "Oops", fatal |-> TRUE, context |-> context]

\* Panic::from(panic_info), as the hook of a PanicHook sends it.
Panic == [kind |-> "Panic", message |-> "boom"]

\* System::current().stop(): the run loop ends with code 0.
System_stop == [running |-> FALSE, code |-> 0]

\* Arbiter::current().do_send(StopArbiter(code)).
StopArbiter(code) == [running |-> FALSE, code |-> code]

\* What a handler did: the message it handled, the events it published, the
\* calls it made on the IRC session, the error records it logged, the Oops
\* messages it sent, whether it stopped the System, whether it panicked, the
\* result it returned, whether it told its Arbiter to stop, and the registry
\* as it found it.
NoStep ==
    [by |-> "none", msg |-> [kind |-> "none"], pubs |-> <<>>, calls |-> <<>>,
     logs |-> <<>>, oops |-> <<>>, stop |-> FALSE, panicked |-> FALSE,
     reply |-> "none", stop_arbiter |-> FALSE, before |-> hooks]

\* ------------------------------------------------------------- publishing
\* What a handler has done so far to the state it shares with its callees.
Ctx == [inbox |-> inbox, pubs |-> <<>>, oops |-> <<>>, count |-> count,
        panicked |-> FALSE]

\* The record of one publish call, made while the k-th frame is handled:
\* the event, the do_send calls, and how many events (seq) and how many
\* RawMessages (raw) had been published before it.
Publication(k, ev, calls, c) ==
    [frame |-> k, ev |-> ev, sent |-> calls, seq |-> c.published,
     raw |-> c.raw]

Counted(c, ev) ==
    [c EXCEPT !.published = @ + 1,
              !.raw = IF ev.type = "RawMessage" THEN @ + 1 ELSE @,
              !.connected = IF ev.type = "Connected" THEN @ + 1 ELSE @]

\* World::publish: hooks.send(msg), with nothing between the panic of a
\* delivery and the handler that called publish.
World_publish(st, ev, k) ==
    IF st.panicked THEN st
    ELSE LET calls == send(hooks, ev.type)
         IN [st EXCEPT !.inbox = Deliver(@, calls, ev),
                       !.pubs = Append(@, Publication(k, ev, calls, st.count)),
                       !.count = Counted(@, ev),
                       !.panicked = Panicked(calls)]

\* Handler<NotifyBot<M>> for Client: message_box.send(msg) inside one
\* catch_unwind; a caught panic becomes a fatal Oops for the error logger.
Client_handle_NotifyBot(st, ev, k) ==
    LET calls == send(hooks, ev.type)
    IN [st EXCEPT !.inbox = Deliver(@, calls, ev),
                  !.pubs = Append(@, Publication(k, ev, calls, st.count)),
                  !.count = Counted(@, ev),
                  !.oops = IF Panicked(calls)
                           THEN Append(@, Oops_fatal(
                                "Encountered a panic while handling a message"))
                           ELSE @]

\* The test with an off-by-one comparison.
no_message_yet_late(n) == n <= 1

\* `self.message_count == 0`: no frame has been handled yet.
no_message_yet(n) == n = 0

\* ------------------------------------------------------------------- Init
\* No collecting broadcast has been made.
NoStream == [type |-> "None", pending |-> <<>>, results |-> <<>>]

Init ==
    /\ impl \in Impls
    /\ hooks = MessageBox_new
    /\ message_count = 0
    /\ mailbox = <<>>
    /\ notified = <<>>
    /\ listening = 0
    /\ spawned = FALSE
    /\ inbox = [h \in Handles |-> <<>>]
    /\ closed = {}
    /\ faulty = {}
    /\ crashed = FALSE
    /\ system = [running |-> TRUE, code |-> 0]
    /\ oops = <<>>
    /\ last = NoStep
    /\ subscribed = NoSubscriber
    /\ history = <<>>
    /\ count = [frames |-> 0, published |-> 0, raw |-> 0, connected |-> 0]
    /\ nframes = 0
    /\ nreq = 0
    /\ nquit = 0
    /\ arbiter = [running |-> TRUE, code |-> 0]
    /\ replies = <<>>
    /\ hook = "default"
    /\ guards = [g \in Guards |-> [state |-> "unmade",
                                   previous_handler |-> "None"]]
    /\ ncmd = 0
    /\ collect = NoStream
    /\ bot = "idle"

\* ------------------------------------------------- senders and the stream
\* world.do_send(StartListening), as the owner of a World does once.
SendStartListening ==
    /\ impl = "World"
    /\ Running
    /\ listening = 0
    /\ Replied
    /\ mailbox' = Append(mailbox, [kind |-> "StartListening"])
    /\ last' = NoStep
    /\ UNCHANGED <<impl, hooks, message_count, notified, listening, spawned,
                   inbox, closed, faulty, crashed, system, oops, subscribed,
                   history, count, nframes, nreq, nquit,
                   arbiter, replies, hook, guards, ncmd,
                   collect, bot>>

\* A stream handler that puts the frame in front of the frames that wait.
World_stream_handle_front(f) ==
    /\ impl = "World"
    /\ Running
    /\ listening > 0
    /\ nframes < MaxFrames
    /\ notified' = <<[kind |-> "RawMessage", frame |-> f,
                      seq |-> nframes + 1]>> \o notified
    /\ nframes' = nframes + 1
    /\ last' = NoStep
    /\ UNCHANGED <<impl, hooks, message_count, mailbox, listening, spawned,
                   inbox, closed, faulty, crashed, system, oops, subscribed,
                   history, count, nreq, nquit, arbiter, replies, hook,
                   guards, ncmd, collect, bot>>

\* StreamHandler<IrcMessage, IrcError> for World: ctx.notify(RawMessage(item)).
World_stream_handle(f) ==
    /\ impl = "World"
    /\ Running
    /\ listening > 0
    /\ nframes < MaxFrames
    /\ notified' = Append(notified, [kind |-> "RawMessage", frame |-> f,
                                     seq |-> nframes + 1])
    /\ nframes' = nframes + 1
    /\ last' = NoStep
    /\ UNCHANGED <<impl, hooks, message_count, mailbox, listening, spawned,
                   inbox, closed, faulty, crashed, system, oops, subscribed,
                   history, count, nreq, nquit,
                   arbiter, replies, hook, guards, ncmd,
                   collect, bot>>

\* world.do_send(Registration::<M>::register(..)) (Bot::spawn) or unregister.
SendRegistration(t, h, reg) ==
    /\ impl = "World"
    /\ Running
    /\ nreq < MaxRequests
    /\ Replied
    /\ mailbox' = Append(mailbox, Registration(t, h, reg))
    /\ nreq' = nreq + 1
    /\ last' = NoStep
    /\ UNCHANGED <<impl, hooks, message_count, notified, listening, spawned,
                   inbox, closed, faulty, crashed, system, oops, subscribed,
                   history, count, nframes, nquit,
                   arbiter, replies, hook, guards, ncmd,
                   collect, bot>>

\* A spawn_client whose join polls receive_messages before
\* sending_registration, a frame being ready on the stream.
spawn_client_stream_first(ops) ==
    /\ impl = "Client"
    /\ Running
    /\ ~spawned
    /\ \E f \in Frames :
          mailbox' = mailbox
                     \o <<[kind |-> "RawMessage", frame |-> f,
                           seq |-> nframes + 1],
                          [kind |-> "Registration", box |-> BuildBox(ops),
                           ops |-> ops]>>
    /\ spawned' = TRUE
    /\ nreq' = Len(ops)
    /\ nframes' = nframes + 1
    /\ last' = NoStep
    /\ UNCHANGED <<impl, hooks, message_count, notified, listening, inbox,
                   closed, faulty, crashed, system, oops, subscribed,
                   history, count, nquit, arbiter, replies, hook, guards,
                   ncmd, collect, bot>>


\* spawn_client: before_start fills a Registration, and the first poll of the
\* spawned join sends it to the Client before the stream is polled.
spawn_client(ops) ==
    /\ impl = "Client"
    /\ Running
    /\ ~spawned
    /\ mailbox' = Append(mailbox, [kind |-> "Registration",
                                   box |-> BuildBox(ops), ops |-> ops])
    /\ spawned' = TRUE
    /\ nreq' = Len(ops)
    /\ last' = NoStep
    /\ UNCHANGED <<impl, hooks, message_count, notified, listening, inbox,
                   closed, faulty, crashed, system, oops, subscribed, history,
                   count, nframes, nquit,
                   arbiter, replies, hook, guards, ncmd,
                   collect, bot>>

\* The receive_messages future of spawn_client: client_2.send(RawMessage(msg))
\* for one stream item at a time, the next after the reply to the last.
receive_messages(f) ==
    /\ impl = "Client"
    /\ Running
    /\ spawned
    /\ nframes < MaxFrames
    /\ ~Pending("RawMessage")
    /\ mailbox' = Append(mailbox, [kind |-> "RawMessage", frame |-> f,
                                   seq |-> nframes + 1])
    /\ nframes' = nframes + 1
    /\ last' = NoStep
    /\ UNCHANGED <<impl, hooks, message_count, notified, listening, spawned,
                   inbox, closed, faulty, crashed, system, oops, subscribed,
                   history, count, nreq, nquit,
                   arbiter, replies, hook, guards, ncmd,
                   collect, bot>>

\* The receive_messages future of spawn_client when the stream item is an
\* error: error_logger.do_send(Oops::new(e)), and the stream is polled on.
receive_error ==
    /\ impl = "Client"
    /\ Running
    /\ spawned
    /\ nframes < MaxFrames
    /\ ~Pending("RawMessage")
    /\ oops' = Append(oops, Oops_new("stream"))
    /\ nframes' = nframes + 1
    /\ last' = NoStep
    /\ UNCHANGED <<impl, hooks, message_count, mailbox, notified, listening,
                   spawned, inbox, closed, faulty, crashed, system, subscribed,
                   history, count, nreq, nquit,
                   arbiter, replies, hook, guards, ncmd,
                   collect, bot>>

\* world.send(Identify), world.send(PrivateMessage {..}), addr.send(Join {..}):
\* the caller sends one command and waits for its result (bot.rs chains them
\* with and_then).
SendCommand(c) ==
    /\ Running
    /\ ncmd < MaxCommands
    /\ Replied
    /\ \A i \in 1..Len(mailbox) : mailbox[i].kind \notin Commands
    /\ replies = <<>>
    /\ mailbox' = Append(mailbox, [kind |-> c])
    /\ ncmd' = ncmd + 1
    /\ last' = NoStep
    /\ UNCHANGED <<impl, hooks, message_count, notified, listening, spawned,
                   inbox, closed, faulty, crashed, system, oops, subscribed,
                   history, count, nframes, nreq, nquit, arbiter, replies,
                   hook, guards,
                   collect, bot>>

\* A second world.do_send(StartListening), which the documentation of
\* StartListening warns against.
SendStartListening_again ==
    /\ impl = "World"
    /\ Running
    /\ listening >= 1
    /\ ncmd < MaxCommands
    /\ Replied
    /\ mailbox' = Append(mailbox, [kind |-> "StartListening"])
    /\ ncmd' = ncmd + 1
    /\ last' = NoStep
    /\ UNCHANGED <<impl, hooks, message_count, notified, listening, spawned,
                   inbox, closed, faulty, crashed, system, oops, subscribed,
                   history, count, nframes, nreq, nquit, arbiter, replies,
                   hook, guards,
                   collect, bot>>

\* An OS signal reaches the World, which handles actix's Signal message.
SendSignal ==
    /\ impl = "World"
    /\ Running
    /\ ncmd < MaxCommands
    /\ Replied
    /\ mailbox' = Append(mailbox, [kind |-> "Signal"])
    /\ ncmd' = ncmd + 1
    /\ last' = NoStep
    /\ UNCHANGED <<impl, hooks, message_count, notified, listening, spawned,
                   inbox, closed, faulty, crashed, system, oops, subscribed,
                   history, count, nframes, nreq, nquit, arbiter, replies,
                   hook, guards,
                   collect, bot>>

\* PanicHook::new: the handler installed is taken and kept as
\* previous_handler, and the guard's own hook is installed.
PanicHook_new(g) ==
    /\ system.running
    /\ guards[g].state = "unmade"
    /\ guards' = [guards EXCEPT ![g] = [state |-> "live",
                                        previous_handler |-> hook]]
    /\ hook' = g
    /\ last' = NoStep
    /\ UNCHANGED <<impl, hooks, message_count, mailbox, notified, listening,
                   spawned, inbox, closed, faulty, crashed, system, oops,
                   subscribed, history, count, nframes, nreq, nquit, arbiter,
                   replies, ncmd,
                   collect, bot>>

\* Drop for PanicHook: the handler installed is taken and thrown away, and
\* previous_handler is installed.
PanicHook_drop(g) ==
    /\ system.running
    /\ guards[g].state = "live"
    /\ hook' = guards[g].previous_handler
    /\ guards' = [guards EXCEPT ![g] = [state |-> "dropped",
                                        previous_handler |-> "None"]]
    /\ last' = NoStep
    /\ UNCHANGED <<impl, hooks, message_count, mailbox, notified, listening,
                   spawned, inbox, closed, faulty, crashed, system, oops,
                   subscribed, history, count, nframes, nreq, nquit, arbiter,
                   replies, ncmd,
                   collect, bot>>

\* A thread panics and the installed handler runs: the hook of a PanicHook
\* sends Panic::from(panic_info) to the actor it was made for (the World, or
\* the Logger as in main.rs); the default handler only prints.
thread_panics ==
    /\ system.running
    /\ ncmd < MaxCommands
    /\ ncmd' = ncmd + 1
    /\ mailbox' = IF hook \in Guards /\ impl = "World"
                  THEN Append(mailbox, Panic) ELSE mailbox
    /\ oops' = IF hook \in Guards /\ impl = "Client"
               THEN Append(oops, Panic) ELSE oops
    /\ last' = NoStep
    /\ UNCHANGED <<impl, hooks, message_count, notified, listening, spawned,
                   inbox, closed, faulty, crashed, system, subscribed,
                   history, count, nframes, nreq, nquit, arbiter, replies,
                   hook, guards,
                   collect, bot>>

\* addr.do_send(Quit::new(reason)).
SendQuit(reason) ==
    /\ Running
    /\ nquit < MaxQuits
    /\ Replied
    /\ mailbox' = Append(mailbox, [kind |-> "Quit", msg |-> reason])
    /\ nquit' = nquit + 1
    /\ last' = NoStep
    /\ UNCHANGED <<impl, hooks, message_count, notified, listening, spawned,
                   inbox, closed, faulty, crashed, system, oops, subscribed,
                   history, count, nframes, nreq,
                   arbiter, replies, hook, guards, ncmd,
                   collect, bot>>

\* ----------------------------------------------------- World's handlers
\* Handler<StartListening> for World: ctx.add_stream(self.client.stream()).
World_handle_StartListening ==
    /\ impl = "World"
    /\ Running
    /\ mailbox # <<>>
    /\ Head(mailbox).kind = "StartListening"
    /\ mailbox' = Tail(mailbox)
    /\ listening' = listening + 1
    /\ last' = [NoStep EXCEPT !.by = "World", !.msg = Head(mailbox)]
    /\ UNCHANGED <<impl, hooks, message_count, notified, spawned, inbox,
                   closed, faulty, crashed, system, oops, subscribed, history,
                   count, nframes, nreq, nquit,
                   arbiter, replies, hook, guards, ncmd,
                   collect, bot>>

\* A Handler<Registration<Connected>> that replays Connected to a subscriber
\* registered when the World has connected already.
World_handle_Registration_replay ==
    /\ impl = "World"
    /\ Running
    /\ mailbox # <<>>
    /\ Head(mailbox).kind = "Registration"
    /\ mailbox' = Tail(mailbox)
    /\ hooks' = apply(Head(mailbox), hooks)
    /\ subscribed' = Applied(subscribed, Head(mailbox))
    /\ inbox' = IF /\ Head(mailbox).type = "Connected"
                   /\ Head(mailbox).register
                   /\ message_count > 0
                THEN [inbox EXCEPT ![Head(mailbox).recipient] =
                         Append(@, Connected)]
                ELSE inbox
    /\ last' = [NoStep EXCEPT !.by = "World", !.msg = Head(mailbox)]
    /\ UNCHANGED <<impl, message_count, notified, listening, spawned, closed,
                   faulty, crashed, system, oops, history, count, nframes,
                   nreq, nquit, arbiter, replies, hook, guards, ncmd,
                   collect, bot>>

\* allow_registration!: Handler<Registration<M>> for World, msg.apply(hooks).
World_handle_Registration ==
    /\ impl = "World"
    /\ Running
    /\ mailbox # <<>>
    /\ Head(mailbox).kind = "Registration"
    /\ mailbox' = Tail(mailbox)
    /\ hooks' = apply(Head(mailbox), hooks)
    /\ subscribed' = Applied(subscribed, Head(mailbox))
    /\ last' = [NoStep EXCEPT !.by = "World", !.msg = Head(mailbox)]
    /\ UNCHANGED <<impl, message_count, notified, listening, spawned, inbox,
                   closed, faulty, crashed, system, oops, count, nframes,
                   nreq, nquit, history,
                   arbiter, replies, hook, guards, ncmd,
                   collect, bot>>

\* A derivation that knows ERR_NOTREGISTERED only, as Client's does.
World_derived_not_registered_only(st, msg, k) ==
    IF msg.command = "ERR_NOTREGISTERED"
    THEN World_publish(st, NotRegistered(msg.args, msg.suffix), k)
    ELSE st

\* The derived event World publishes for a frame, if any.
World_derived(st, msg, k) ==
    CASE msg.command = "ERR_NOTREGISTERED" ->
            World_publish(st, NotRegistered(msg.args, msg.suffix), k)
      [] msg.command = "PRIVMSG" ->
            World_publish(st, PrivateMessageReceived(msg.args[1], msg.args[2],
                                                     msg), k)
      [] OTHER -> st

\* A forward that leaves the raw message out when an event was derived.
World_forward_unless_derived(st, msg, k) ==
    IF msg.command \in {"ERR_NOTREGISTERED", "PRIVMSG"} THEN st
    ELSE World_publish(st, RawMessage(msg), k)

\* The last statement of World's handler: self.publish(msg).
World_forward(st, msg, k) == World_publish(st, RawMessage(msg), k)

\* A Handler<RawMessage> that keeps a flag where the World keeps a count:
\* message_count is set to 1.
World_handle_RawMessage_flag ==
    /\ impl = "World"
    /\ Running
    /\ notified # <<>>
    /\ Head(notified).kind = "RawMessage"
    /\ LET msg == Head(notified).frame
           k == count.frames + 1
           s1 == IF no_message_yet(message_count)
                 THEN World_publish(Ctx, Connected, k)
                 ELSE Ctx
           s2 == World_derived(s1, msg, k)
           s3 == World_forward(s2, msg, k)
       IN /\ notified' = Tail(notified)
          /\ message_count' = IF s1.panicked THEN message_count ELSE 1
          /\ inbox' = s3.inbox
          /\ count' = [s3.count EXCEPT !.frames = k]
          /\ crashed' = s3.panicked
          /\ last' = [NoStep EXCEPT !.by = "World", !.msg = Head(notified),
                                    !.pubs = s3.pubs,
                                    !.panicked = s3.panicked]
    /\ UNCHANGED <<impl, hooks, mailbox, listening, spawned, closed, faulty,
                   system, oops, subscribed, history, nframes, nreq, nquit,
                   arbiter, replies, hook, guards, ncmd, collect, bot>>

\* Handler<RawMessage> for World.
World_handle_RawMessage ==
    /\ impl = "World"
    /\ Running
    /\ notified # <<>>
    /\ Head(notified).kind = "RawMessage"
    /\ LET msg == Head(notified).frame
           k == count.frames + 1
           s1 == IF no_message_yet(message_count)
                 THEN World_publish(Ctx, Connected, k)
                 ELSE Ctx
           s2 == World_derived(s1, msg, k)
           s3 == World_forward(s2, msg, k)
       IN /\ notified' = Tail(notified)
          /\ message_count' = IF s1.panicked THEN message_count
                              ELSE message_count + 1
          /\ inbox' = s3.inbox
          /\ count' = [s3.count EXCEPT !.frames = k]
          /\ crashed' = s3.panicked
          /\ last' = [NoStep EXCEPT !.by = "World", !.msg = Head(notified),
                                    !.pubs = s3.pubs,
                                    !.panicked = s3.panicked]
    /\ UNCHANGED <<impl, hooks, mailbox, listening, spawned, closed, faulty,
                   system, oops, subscribed, history, nframes, nreq, nquit,
                   arbiter, replies, hook, guards, ncmd,
                   collect, bot>>

\* Handler<Quit> for World: send_quit, the error logged, then System stop.
World_handle_Quit(ok) ==
    /\ impl = "World"
    /\ Running
    /\ mailbox # <<>>
    /\ Head(mailbox).kind = "Quit"
    /\ mailbox' = Tail(mailbox)
    /\ system' = System_stop
    /\ last' = [NoStep EXCEPT
                  !.by = "World", !.msg = Head(mailbox),
                  !.calls = <<[op |-> "send_quit", arg |-> Head(mailbox).msg,
                               ok |-> ok]>>,
                  !.logs = IF ok THEN <<>> ELSE <<"Unable to quit">>,
                  !.stop = TRUE]
    /\ UNCHANGED <<impl, hooks, message_count, notified, listening, spawned,
                   inbox, closed, faulty, crashed, oops, subscribed, history,
                   count, nframes, nreq, nquit,
                   arbiter, replies, hook, guards, ncmd,
                   collect, bot>>

\* Handler<PrivateMessage> for World: send_privmsg, the error logged, the
\* result returned.
World_handle_PrivateMessage(ok) ==
    /\ impl = "World"
    /\ Running
    /\ mailbox # <<>>
    /\ Head(mailbox).kind = "PrivateMessage"
    /\ mailbox' = Tail(mailbox)
    /\ replies' = Append(replies, [cmd |-> "PrivateMessage",
                                   res |-> IF ok THEN "Ok" ELSE "Err"])
    /\ last' = [NoStep EXCEPT
                  !.by = "World", !.msg = Head(mailbox),
                  !.calls = <<[op |-> SessionCall["PrivateMessage"], ok |-> ok]>>,
                  !.logs = IF ok THEN <<>>
                           ELSE <<FailureContext["PrivateMessage"]>>,
                  !.reply = IF ok THEN "Ok" ELSE "Err"]
    /\ UNCHANGED <<impl, hooks, message_count, notified, listening, spawned,
                   inbox, closed, faulty, crashed, system, oops, subscribed,
                   history, count, nframes, nreq, nquit, arbiter, hook,
                   guards, ncmd,
                   collect, bot>>

\* Handler<Join> for World: the result of send_join returned, nothing logged.
World_handle_Join(ok) ==
    /\ impl = "World"
    /\ Running
    /\ mailbox # <<>>
    /\ Head(mailbox).kind = "Join"
    /\ mailbox' = Tail(mailbox)
    /\ replies' = Append(replies, [cmd |-> "Join",
                                   res |-> IF ok THEN "Ok" ELSE "Err"])
    /\ last' = [NoStep EXCEPT
                  !.by = "World", !.msg = Head(mailbox),
                  !.calls = <<[op |-> SessionCall["Join"], ok |-> ok]>>,
                  !.logs = <<>>,
                  !.reply = IF ok THEN "Ok" ELSE "Err"]
    /\ UNCHANGED <<impl, hooks, message_count, notified, listening, spawned,
                   inbox, closed, faulty, crashed, system, oops, subscribed,
                   history, count, nframes, nreq, nquit, arbiter, hook,
                   guards, ncmd,
                   collect, bot>>

\* Handler<Identify> for World: identify, the error logged, the result
\* returned.
World_handle_Identify(ok) ==
    /\ impl = "World"
    /\ Running
    /\ mailbox # <<>>
    /\ Head(mailbox).kind = "Identify"
    /\ mailbox' = Tail(mailbox)
    /\ replies' = Append(replies, [cmd |-> "Identify",
                                   res |-> IF ok THEN "Ok" ELSE "Err"])
    /\ last' = [NoStep EXCEPT
                  !.by = "World", !.msg = Head(mailbox),
                  !.calls = <<[op |-> SessionCall["Identify"], ok |-> ok]>>,
                  !.logs = IF ok THEN <<>>
                           ELSE <<FailureContext["Identify"]>>,
                  !.reply = IF ok THEN "Ok" ELSE "Err"]
    /\ UNCHANGED <<impl, hooks, message_count, notified, listening, spawned,
                   inbox, closed, faulty, crashed, system, oops, subscribed,
                   history, count, nframes, nreq, nquit, arbiter, hook,
                   guards, ncmd,
                   collect, bot>>

\* Handler<StartListening> for World when a stream was taken before and
\* self.client.stream() panics, as the documentation of StartListening says
\* it probably will: the panic unwinds the handler.
World_handle_StartListening_panic ==
    /\ impl = "World"
    /\ Running
    /\ mailbox # <<>>
    /\ Head(mailbox).kind = "StartListening"
    /\ listening >= 1
    /\ mailbox' = Tail(mailbox)
    /\ crashed' = TRUE
    /\ last' = [NoStep EXCEPT !.by = "World", !.msg = Head(mailbox),
                              !.panicked = TRUE]
    /\ UNCHANGED <<impl, hooks, message_count, notified, listening, spawned,
                   inbox, closed, faulty, system, oops, subscribed, history,
                   count, nframes, nreq, nquit, arbiter, replies, hook,
                   guards, ncmd,
                   collect, bot>>

\* A Handler<Signal> that stops the System only when the quit went through.
World_handle_Signal_unless_failed(ok) ==
    /\ impl = "World"
    /\ Running
    /\ mailbox # <<>>
    /\ Head(mailbox).kind = "Signal"
    /\ mailbox' = Tail(mailbox)
    /\ system' = IF ok THEN System_stop ELSE system
    /\ last' = [NoStep EXCEPT
                  !.by = "World", !.msg = Head(mailbox),
                  !.calls = <<[op |-> "send_quit", arg |-> "Leaving...",
                               ok |-> ok]>>,
                  !.logs = IF ok THEN <<>>
                           ELSE <<"Encountered an error while trying to quit gracefully">>,
                  !.stop = ok]
    /\ UNCHANGED <<impl, hooks, message_count, notified, listening, spawned,
                   inbox, closed, faulty, crashed, oops, subscribed, history,
                   count, nframes, nreq, nquit, arbiter, replies, hook,
                   guards, ncmd, collect, bot>>

\* Handler<Signal> for World: send_quit("Leaving..."), the error logged, then
\* System stop.
World_handle_Signal(ok) ==
    /\ impl = "World"
    /\ Running
    /\ mailbox # <<>>
    /\ Head(mailbox).kind = "Signal"
    /\ mailbox' = Tail(mailbox)
    /\ system' = System_stop
    /\ last' = [NoStep EXCEPT
                  !.by = "World", !.msg = Head(mailbox),
                  !.calls = <<[op |-> "send_quit", arg |-> "Leaving...",
                               ok |-> ok]>>,
                  !.logs = IF ok THEN <<>>
                           ELSE <<"Encountered an error while trying to quit gracefully">>,
                  !.stop = TRUE]
    /\ UNCHANGED <<impl, hooks, message_count, notified, listening, spawned,
                   inbox, closed, faulty, crashed, oops, subscribed, history,
                   count, nframes, nreq, nquit, arbiter, replies, hook,
                   guards, ncmd,
                   collect, bot>>

\* Handler<Panic> for World: the panic logged with its fields, then
\* Arbiter::current().do_send(StopArbiter(1)).
World_handle_Panic ==
    /\ impl = "World"
    /\ Running
    /\ mailbox # <<>>
    /\ Head(mailbox).kind = "Panic"
    /\ mailbox' = Tail(mailbox)
    /\ arbiter' = StopArbiter(1)
    /\ last' = [NoStep EXCEPT !.by = "World", !.msg = Head(mailbox),
                              !.logs = <<"A thread panicked">>,
                              !.stop_arbiter = TRUE]
    /\ UNCHANGED <<impl, hooks, message_count, notified, listening, spawned,
                   inbox, closed, faulty, crashed, system, oops, subscribed,
                   history, count, nframes, nreq, nquit, replies, hook,
                   guards, ncmd,
                   collect, bot>>

\* ---------------------------------------------------- Client's handlers
\* Handler<Registration> for Client: self.message_box = msg.0.
Client_handle_Registration ==
    /\ impl = "Client"
    /\ Running
    /\ mailbox # <<>>
    /\ Head(mailbox).kind = "Registration"
    /\ mailbox' = Tail(mailbox)
    /\ hooks' = Head(mailbox).box
    /\ subscribed' = Replay(Head(mailbox).ops)
    /\ last' = [NoStep EXCEPT !.by = "Client", !.msg = Head(mailbox)]
    /\ UNCHANGED <<impl, message_count, notified, listening, spawned, inbox,
                   closed, faulty, crashed, system, oops, count, nframes,
                   nreq, nquit, history,
                   arbiter, replies, hook, guards, ncmd,
                   collect, bot>>

\* Handler<RawMessage> for Client: Connected and the raw message are passed
\* to Handler<NotifyBot<M>> directly, NotRegistered through ctx.notify.
Client_handle_RawMessage ==
    /\ impl = "Client"
    /\ Running
    /\ mailbox # <<>>
    /\ Head(mailbox).kind = "RawMessage"
    /\ LET msg == Head(mailbox).frame
           k == count.frames + 1
           s1 == IF no_message_yet(message_count)
                 THEN Client_handle_NotifyBot(Ctx, Connected, k)
                 ELSE Ctx
           s2 == Client_handle_NotifyBot(s1, RawMessage(msg), k)
       IN /\ mailbox' = Tail(mailbox)
          /\ message_count' = message_count + 1
          /\ notified' = IF msg.command = "ERR_NOTREGISTERED"
                         THEN Append(notified,
                                [kind |-> "NotifyBot", frame |-> k,
                                 ev |-> NotRegistered(msg.args, msg.suffix)])
                         ELSE notified
          /\ inbox' = s2.inbox
          /\ count' = [s2.count EXCEPT !.frames = k]
          /\ oops' = oops \o s2.oops
          /\ last' = [NoStep EXCEPT !.by = "Client", !.msg = Head(mailbox),
                                    !.pubs = s2.pubs, !.oops = s2.oops]
    /\ UNCHANGED <<impl, hooks, listening, spawned, closed, faulty, crashed,
                   system, subscribed, history, nframes, nreq, nquit,
                   arbiter, replies, hook, guards, ncmd,
                   collect, bot>>

\* Handler<NotifyBot<M>> for Client, for a message the Client notified
\* itself of.
Client_handle_notified ==
    /\ impl = "Client"
    /\ Running
    /\ notified # <<>>
    /\ Head(notified).kind = "NotifyBot"
    /\ LET s1 == Client_handle_NotifyBot(Ctx, Head(notified).ev,
                                         Head(notified).frame)
       IN /\ inbox' = s1.inbox
          /\ count' = s1.count
          /\ oops' = oops \o s1.oops
          /\ last' = [NoStep EXCEPT !.by = "Client", !.msg = Head(notified),
                                    !.pubs = s1.pubs, !.oops = s1.oops]
    /\ notified' = Tail(notified)
    /\ UNCHANGED <<impl, hooks, message_count, mailbox, listening, spawned,
                   closed, faulty, crashed, system, subscribed, history,
                   nframes, nreq, nquit,
                   arbiter, replies, hook, guards, ncmd,
                   collect, bot>>

\* Handler<Quit> for Client: send_quit, the error sent to the error logger
\* as Oops::fatal, then System stop.
Client_handle_Quit(ok) ==
    /\ impl = "Client"
    /\ Running
    /\ mailbox # <<>>
    /\ Head(mailbox).kind = "Quit"
    /\ mailbox' = Tail(mailbox)
    /\ system' = System_stop
    /\ LET sent == IF ok THEN <<>> ELSE <<Oops_fatal("Unable to quit")>>
       IN /\ oops' = oops \o sent
          /\ last' = [NoStep EXCEPT
                        !.by = "Client", !.msg = Head(mailbox),
                        !.calls = <<[op |-> "send_quit",
                                     arg |-> Head(mailbox).msg, ok |-> ok]>>,
                        !.oops = sent,
                        !.stop = TRUE]
    /\ UNCHANGED <<impl, hooks, message_count, notified, listening, spawned,
                   inbox, closed, faulty, crashed, subscribed, history, count,
                   nframes, nreq, nquit,
                   arbiter, replies, hook, guards, ncmd,
                   collect, bot>>

\* Handler<PrivateMessage> for Client: on failure an Oops::new for the error
\* logger; the handler returns ().
Client_handle_PrivateMessage(ok) ==
    /\ impl = "Client"
    /\ Running
    /\ mailbox # <<>>
    /\ Head(mailbox).kind = "PrivateMessage"
    /\ mailbox' = Tail(mailbox)
    /\ replies' = Append(replies, [cmd |-> "PrivateMessage", res |-> "unit"])
    /\ LET sent == IF ok THEN <<>>
                   ELSE <<Oops_new(FailureContext["PrivateMessage"])>>
       IN /\ oops' = oops \o sent
          /\ last' = [NoStep EXCEPT
                        !.by = "Client", !.msg = Head(mailbox),
                        !.calls = <<[op |-> SessionCall["PrivateMessage"],
                                     ok |-> ok]>>,
                        !.oops = sent,
                        !.reply = "unit"]
    /\ UNCHANGED <<impl, hooks, message_count, notified, listening, spawned,
                   inbox, closed, faulty, crashed, system, subscribed,
                   history, count, nframes, nreq, nquit, arbiter, hook,
                   guards, ncmd,
                   collect, bot>>

\* Handler<Join> for Client.
Client_handle_Join(ok) ==
    /\ impl = "Client"
    /\ Running
    /\ mailbox # <<>>
    /\ Head(mailbox).kind = "Join"
    /\ mailbox' = Tail(mailbox)
    /\ replies' = Append(replies, [cmd |-> "Join", res |-> "unit"])
    /\ LET sent == IF ok THEN <<>>
                   ELSE <<Oops_new(FailureContext["Join"])>>
       IN /\ oops' = oops \o sent
          /\ last' = [NoStep EXCEPT
                        !.by = "Client", !.msg = Head(mailbox),
                        !.calls = <<[op |-> SessionCall["Join"],
                                     ok |-> ok]>>,
                        !.oops = sent,
                        !.reply = "unit"]
    /\ UNCHANGED <<impl, hooks, message_count, notified, listening, spawned,
                   inbox, closed, faulty, crashed, system, subscribed,
                   history, count, nframes, nreq, nquit, arbiter, hook,
                   guards, ncmd,
                   collect, bot>>

\* Handler<Identify> for Client.
Client_handle_Identify(ok) ==
    /\ impl = "Client"
    /\ Running
    /\ mailbox # <<>>
    /\ Head(mailbox).kind = "Identify"
    /\ mailbox' = Tail(mailbox)
    /\ replies' = Append(replies, [cmd |-> "Identify", res |-> "unit"])
    /\ LET sent == IF ok THEN <<>>
                   ELSE <<Oops_new(FailureContext["Identify"])>>
       IN /\ oops' = oops \o sent
          /\ last' = [NoStep EXCEPT
                        !.by = "Client", !.msg = Head(mailbox),
                        !.calls = <<[op |-> SessionCall["Identify"],
                                     ok |-> ok]>>,
                        !.oops = sent,
                        !.reply = "unit"]
    /\ UNCHANGED <<impl, hooks, message_count, notified, listening, spawned,
                   inbox, closed, faulty, crashed, system, subscribed,
                   history, count, nframes, nreq, nquit, arbiter, hook,
                   guards, ncmd,
                   collect, bot>>

\* A Logger that stops the System for every Oops.
Logger_handle_Oops_any ==
    /\ system.running
    /\ oops # <<>>
    /\ Head(oops).kind = "Oops"
    /\ oops' = Tail(oops)
    /\ system' = System_stop
    /\ last' = [NoStep EXCEPT
                  !.by = "Logger",
                  !.msg = [kind |-> "Oops", fatal |-> Head(oops).fatal],
                  !.logs = <<Head(oops).context>>,
                  !.stop = TRUE]
    /\ UNCHANGED <<impl, hooks, message_count, mailbox, notified, listening,
                   spawned, inbox, closed, faulty, crashed, subscribed,
                   history, count, nframes, nreq, nquit, arbiter, replies,
                   hook, guards, ncmd, collect, bot>>

\* ------------------------------------------------------ the other actors
\* Handler<Oops> for Logger: the error is logged; a fatal one stops the System.
Logger_handle_Oops ==
    /\ system.running
    /\ oops # <<>>
    /\ Head(oops).kind = "Oops"
    /\ oops' = Tail(oops)
    /\ system' = IF Head(oops).fatal THEN System_stop ELSE system
    /\ last' = [NoStep EXCEPT
                  !.by = "Logger",
                  !.msg = [kind |-> "Oops", fatal |-> Head(oops).fatal],
                  !.logs = <<Head(oops).context>>,
                  !.stop = Head(oops).fatal]
    /\ UNCHANGED <<impl, hooks, message_count, mailbox, notified, listening,
                   spawned, inbox, closed, faulty, crashed, subscribed,
                   history, count, nframes, nreq, nquit,
                   arbiter, replies, hook, guards, ncmd,
                   collect, bot>>

\* Handler<Panic> for Logger: the panic logged with its fields, nothing else.
Logger_handle_Panic ==
    /\ system.running
    /\ oops # <<>>
    /\ Head(oops).kind = "Panic"
    /\ oops' = Tail(oops)
    /\ last' = [NoStep EXCEPT !.by = "Logger", !.msg = Head(oops),
                              !.logs = <<"A thread panicked">>]
    /\ UNCHANGED <<impl, hooks, message_count, mailbox, notified, listening,
                   spawned, inbox, closed, faulty, crashed, system,
                   subscribed, history, count, nframes, nreq, nquit, arbiter,
                   replies, hook, guards, ncmd,
                   collect, bot>>

\* The handle of the Bot of bot.rs among the subscribers, and its password.
BotHandle == "H1"

identify_password == "password"

\* world.send(PrivateMessage {to: "NickServ", content: "IDENTIFY <password>"}).
NickServ_identify ==
    [kind |-> "PrivateMessage", to |-> "NickServ",
     content |-> <<"IDENTIFY ", identify_password>>]

\* Bot::spawn: the Bot is started and
\* world.do_send(Registration::<Connected>::register(bot.recipient())).
Bot_spawn ==
    /\ impl = "World"
    /\ Running
    /\ bot = "idle"
    /\ bot' = "started"
    /\ mailbox' = Append(mailbox, Registration("Connected", BotHandle, TRUE))
    /\ last' = NoStep
    /\ UNCHANGED <<impl, hooks, message_count, notified, listening, spawned,
                   inbox, closed, faulty, crashed, system, oops, subscribed,
                   history, count, nframes, nreq, nquit, arbiter, replies,
                   hook, guards, ncmd, collect>>

\* Handler<Connected> for Bot, its beginning: self.world.send(Identify).  A
\* World that a panic has ended answers with a MailboxError.
Bot_handle_Connected ==
    /\ system.running
    /\ arbiter.running
    /\ bot = "started"
    /\ BotHandle \notin closed
    /\ inbox[BotHandle] # <<>>
    /\ Head(inbox[BotHandle]).type = "Connected"
    /\ inbox' = [inbox EXCEPT ![BotHandle] = Tail(@)]
    /\ IF crashed
       THEN /\ replies' = Append(replies, [cmd |-> "Identify",
                                           res |-> "MailboxError"])
            /\ UNCHANGED mailbox
       ELSE /\ mailbox' = Append(mailbox, [kind |-> "Identify"])
            /\ UNCHANGED replies
    /\ last' = [NoStep EXCEPT !.by = "Bot", !.msg = [kind |-> "Connected"]]
    /\ UNCHANGED <<impl, hooks, message_count, notified, listening, spawned,
                   closed, faulty, crashed, system, oops, subscribed,
                   history, count, nframes, nreq, nquit, arbiter, hook,
                   guards, ncmd, collect, bot>>

\* A command waiting in the mailbox of a World that a panic has ended: the
\* request is dropped and its sender gets a MailboxError.
Mailbox_closed ==
    /\ system.running
    /\ crashed
    /\ mailbox # <<>>
    /\ Head(mailbox).kind \in Commands
    /\ mailbox' = Tail(mailbox)
    /\ replies' = Append(replies, [cmd |-> Head(mailbox).kind,
                                   res |-> "MailboxError"])
    /\ last' = NoStep
    /\ UNCHANGED <<impl, hooks, message_count, notified, listening, spawned,
                   inbox, closed, faulty, crashed, system, oops, subscribed,
                   history, count, nframes, nreq, nquit, arbiter, hook,
                   guards, ncmd, collect, bot>>

\* A Bot without lift_err: the Err the World returns inside the reply is
\* taken for a success, and only a MailboxError is a failure.
Bot_handle_reply_unlifted ==
    /\ impl = "World"
    /\ system.running
    /\ arbiter.running
    /\ replies # <<>>
    /\ Head(replies).cmd \in {"Identify", "PrivateMessage"}
    /\ LET failed == Head(replies).res = "MailboxError"
           next == ~failed /\ Head(replies).cmd = "Identify"
       IN /\ arbiter' = IF failed THEN StopArbiter(1) ELSE arbiter
          /\ mailbox' = IF next /\ ~crashed
                        THEN Append(mailbox, NickServ_identify) ELSE mailbox
          /\ replies' = IF next /\ crashed
                        THEN Append(Tail(replies),
                                    [cmd |-> "PrivateMessage",
                                     res |-> "MailboxError"])
                        ELSE Tail(replies)
          /\ last' = [NoStep EXCEPT
                        !.by = "Bot",
                        !.msg = [kind |-> "Reply", cmd |-> Head(replies).cmd,
                                 res |-> Head(replies).res],
                        !.logs = IF failed THEN <<"Unable to identify">>
                                 ELSE <<>>,
                        !.stop_arbiter = failed]
    /\ UNCHANGED <<impl, hooks, message_count, notified, listening, spawned,
                   inbox, closed, faulty, crashed, system, oops, subscribed,
                   history, count, nframes, nreq, nquit, hook, guards, ncmd,
                   collect, bot>>

\* Handler<Connected> for Bot (bot.rs), the rest of its future: when Identify
\* has returned Ok the NickServ message is sent; a failed Identify or
\* PrivateMessage (the session's error or a MailboxError) is logged and the
\* Bot's Arbiter, which hosts the World too, is told to stop with code 1.
Bot_handle_reply ==
    /\ impl = "World"
    /\ system.running
    /\ arbiter.running
    /\ replies # <<>>
    /\ Head(replies).cmd \in {"Identify", "PrivateMessage"}
    /\ LET failed == Head(replies).res # "Ok"
           next == ~failed /\ Head(replies).cmd = "Identify"
       IN /\ arbiter' = IF failed THEN StopArbiter(1) ELSE arbiter
          /\ mailbox' = IF next /\ ~crashed
                        THEN Append(mailbox, NickServ_identify) ELSE mailbox
          /\ replies' = IF next /\ crashed
                        THEN Append(Tail(replies),
                                    [cmd |-> "PrivateMessage",
                                     res |-> "MailboxError"])
                        ELSE Tail(replies)
          /\ last' = [NoStep EXCEPT
                        !.by = "Bot",
                        !.msg = [kind |-> "Reply", cmd |-> Head(replies).cmd,
                                 res |-> Head(replies).res],
                        !.logs = IF failed THEN <<"Unable to identify">>
                                 ELSE <<>>,
                        !.stop_arbiter = failed]
    /\ UNCHANGED <<impl, hooks, message_count, notified, listening, spawned,
                   inbox, closed, faulty, crashed, system, oops, subscribed,
                   history, count, nframes, nreq, nquit, hook, guards, ncmd,
                   collect, bot>>

\* Any other caller takes the result of its command: the Bot of main.rs,
\* whose commands return (), and the sender of a Join to a World.
Caller_handle_reply ==
    /\ system.running
    /\ replies # <<>>
    /\ impl = "World" => Head(replies).cmd = "Join"
    /\ replies' = Tail(replies)
    /\ last' = NoStep
    /\ UNCHANGED <<impl, hooks, message_count, mailbox, notified, listening,
                   spawned, inbox, closed, faulty, crashed, system, oops,
                   subscribed, history, count, nframes, nreq, nquit, arbiter,
                   hook, guards, ncmd,
                   collect, bot>>

\* tests::Handler<DummyMessage> for World: the stream of hooks.do_send(msg) is
\* spawned on the Arbiter with for_each.  The message type stands for any type
\* the registry holds.
World_handle_DummyMessage(t) ==
    /\ impl = "World"
    /\ Running
    /\ Replied
    /\ collect = NoStream
    /\ collect' = [type |-> t, pending |-> MessageBox_do_send(hooks, t),
                   results |-> <<>>]
    /\ last' = [NoStep EXCEPT !.by = "World",
                              !.msg = [kind |-> "DummyMessage", type |-> t]]
    /\ UNCHANGED <<impl, hooks, message_count, mailbox, notified, listening,
                   spawned, inbox, closed, faulty, crashed, system, oops,
                   subscribed, history, count, nframes, nreq, nquit, arbiter,
                   replies, hook, guards, ncmd, bot>>

\* The first poll of the i-th request of the stream: the copy of the message
\* is put in the recipient's mailbox.
Request_poll(i) ==
    /\ system.running
    /\ i \in 1..Len(collect.pending)
    /\ collect.pending[i].state = "made"
    /\ collect.pending[i].to \notin closed
    /\ inbox' = [inbox EXCEPT ![collect.pending[i].to] =
                    Append(@, [type |-> collect.type, payload |-> "unit",
                               request |-> i])]
    /\ collect' = [collect EXCEPT !.pending[i].state = "sent"]
    /\ last' = NoStep
    /\ UNCHANGED <<impl, hooks, message_count, mailbox, notified, listening,
                   spawned, closed, faulty, crashed, system, oops,
                   subscribed, history, count, nframes, nreq, nquit, arbiter,
                   replies, hook, guards, ncmd, bot>>

\* The recipient of the i-th request handles the copy at the head of its
\* mailbox and the stream yields the result.
Request_complete(i) ==
    /\ system.running
    /\ i \in 1..Len(collect.pending)
    /\ collect.pending[i].state = "sent"
    /\ LET to == collect.pending[i].to
       IN /\ inbox[to] # <<>>
          /\ "request" \in DOMAIN Head(inbox[to])
          /\ Head(inbox[to]).request = i
          /\ inbox' = [inbox EXCEPT ![to] = Tail(@)]
          /\ collect' = [collect EXCEPT
                           !.pending[i].state = "done",
                           !.results = Append(@, [request |-> i, from |-> to,
                                                  res |-> "Ok"])]
    /\ last' = NoStep
    /\ UNCHANGED <<impl, hooks, message_count, mailbox, notified, listening,
                   spawned, closed, faulty, crashed, system, oops,
                   subscribed, history, count, nframes, nreq, nquit, arbiter,
                   replies, hook, guards, ncmd, bot>>

\* A subscriber handles the message at the head of its mailbox.
Subscriber_handle(h) ==
    /\ system.running
    /\ h \notin closed
    /\ inbox[h] # <<>>
    /\ inbox' = [inbox EXCEPT ![h] = Tail(@)]
    /\ last' = NoStep
    /\ UNCHANGED <<impl, hooks, message_count, mailbox, notified, listening,
                   spawned, closed, faulty, crashed, system, oops, subscribed,
                   history, count, nframes, nreq, nquit,
                   arbiter, replies, hook, guards, ncmd,
                   collect, bot>>

\* A subscriber actor stops: its mailbox is closed from then on.
Subscriber_stop(h) ==
    /\ system.running
    /\ h \notin closed
    /\ closed' = closed \cup {h}
    /\ last' = NoStep
    /\ UNCHANGED <<impl, hooks, message_count, mailbox, notified, listening,
                   spawned, inbox, faulty, crashed, system, oops, subscribed,
                   history, count, nframes, nreq, nquit,
                   arbiter, replies, hook, guards, ncmd,
                   collect, bot>>

\* A subscriber starts to fault: a delivery to it panics from then on.
Subscriber_fault(h) ==
    /\ system.running
    /\ h \notin faulty
    /\ faulty' = faulty \cup {h}
    /\ last' = NoStep
    /\ UNCHANGED <<impl, hooks, message_count, mailbox, notified, listening,
                   spawned, inbox, closed, crashed, system, oops, subscribed,
                   history, count, nframes, nreq, nquit,
                   arbiter, replies, hook, guards, ncmd,
                   collect, bot>>

\* A call of Registration::apply on a MessageBox of its own, as the tests of
\* utils.rs use one.
MessageBox_apply(t, h, reg) ==
    /\ Len(history) < MaxOps
    /\ hooks' = apply(Registration(t, h, reg), hooks)
    /\ history' = Append(history, [type |-> t, recipient |-> h,
                                   register |-> reg])
    /\ UNCHANGED <<impl, message_count, mailbox, notified, listening, spawned,
                   inbox, closed, faulty, crashed, system, oops, last,
                   subscribed, count, nframes, nreq, nquit,
                   arbiter, replies, hook, guards, ncmd,
                   collect, bot>>

\* --------------------------------------------------------- specifications
Next ==
    \/ SendStartListening
    \/ \E f \in Frames : World_stream_handle(f)
    \/ \E t \in WorldRegistrable, h \in Handles, reg \in BOOLEAN :
            SendRegistration(t, h, reg)
    \/ \E ops \in CallSeqs(MaxRequests) : spawn_client(ops)
    \/ \E f \in Frames : receive_messages(f)
    \/ \E reason \in QuitReasons : SendQuit(reason)
    \/ World_handle_StartListening
    \/ World_handle_Registration
    \/ World_handle_RawMessage
    \/ \E ok \in BOOLEAN : World_handle_Quit(ok)
    \/ Client_handle_Registration
    \/ Client_handle_RawMessage
    \/ Client_handle_notified
    \/ \E ok \in BOOLEAN : Client_handle_Quit(ok)
    \/ \E h \in Handles : Subscriber_handle(h)

\* The program while its subscribers live and take their deliveries and the
\* stream yields frames only.  The one Oops such a run sends is the fatal one
\* of Client's Handler<Quit>, sent as the System is stopped.
Spec == Init /\ [][Next]_vars

\* The World alone, with live subscribers: the World's part of Next.
WorldNext ==
    \/ SendStartListening
    \/ \E f \in Frames : World_stream_handle(f)
    \/ \E t \in WorldRegistrable, h \in Handles, reg \in BOOLEAN :
            SendRegistration(t, h, reg)
    \/ \E reason \in QuitReasons : SendQuit(reason)
    \/ World_handle_StartListening
    \/ World_handle_Registration
    \/ World_handle_RawMessage
    \/ \E ok \in BOOLEAN : World_handle_Quit(ok)
    \/ \E h \in Handles : Subscriber_handle(h)

WorldSpec == Init /\ [][WorldNext]_vars

\* The program with subscribers that may stop, subscribers a delivery to
\* which may panic (the case the catch_unwind of Handler<NotifyBot<M>> is
\* written for), a stream that may yield errors, and the error logger that
\* handles what it is sent.
NextFault ==
    \/ Next
    \/ \E h \in Handles : Subscriber_stop(h)
    \/ \E h \in Handles : Subscriber_fault(h)
    \/ receive_error
    \/ Logger_handle_Oops

SpecFault == Init /\ [][NextFault]_vars

\* A MessageBox alone, under any sequence of register and unregister calls.
BoxNext ==
    \E t \in WorldRegistrable, h \in Handles, reg \in BOOLEAN :
        MessageBox_apply(t, h, reg)

BoxSpec == Init /\ [][BoxNext]_vars

\* The supervisor under commands, repeated StartListening, signals, panics
\* caught by a PanicHook, stream errors and Quit, with no subscriber
\* registered: every way the code has of stopping the System or an Arbiter.
NextCmd ==
    \/ SendStartListening
    \/ SendStartListening_again
    \/ \E ops \in CallSeqs(0) : spawn_client(ops)
    \/ receive_error
    \/ \E c \in Commands : SendCommand(c)
    \/ SendSignal
    \/ PanicHook_new("G1")
    \/ thread_panics
    \/ \E reason \in QuitReasons : SendQuit(reason)
    \/ World_handle_StartListening
    \/ World_handle_StartListening_panic
    \/ \E ok \in BOOLEAN : World_handle_PrivateMessage(ok)
    \/ \E ok \in BOOLEAN : World_handle_Join(ok)
    \/ \E ok \in BOOLEAN : World_handle_Identify(ok)
    \/ \E ok \in BOOLEAN : World_handle_Signal(ok)
    \/ World_handle_Panic
    \/ \E ok \in BOOLEAN : World_handle_Quit(ok)
    \/ Client_handle_Registration
    \/ \E ok \in BOOLEAN : Client_handle_PrivateMessage(ok)
    \/ \E ok \in BOOLEAN : Client_handle_Join(ok)
    \/ \E ok \in BOOLEAN : Client_handle_Identify(ok)
    \/ \E ok \in BOOLEAN : Client_handle_Quit(ok)
    \/ Logger_handle_Oops
    \/ Logger_handle_Panic
    \/ Bot_handle_reply
    \/ Caller_handle_reply

SpecCmd == Init /\ [][NextCmd]_vars

\* PanicHook guards made and dropped in any order while threads panic.
HookNext ==
    \/ \E g \in Guards : PanicHook_new(g)
    \/ \E g \in Guards : PanicHook_drop(g)
    \/ thread_panics
    \/ World_handle_Panic
    \/ Logger_handle_Panic

HookSpec == Init /\ [][HookNext]_vars

\* A World whose registry is filled by Registration<M> requests and which
\* makes one collecting broadcast, answered by live subscribers in any order.
CollectNext ==
    \/ \E t \in WorldRegistrable, h \in Handles, reg \in BOOLEAN :
            SendRegistration(t, h, reg)
    \/ World_handle_Registration
    \/ \E t \in WorldRegistrable : World_handle_DummyMessage(t)
    \/ \E i \in 1..MaxRequests : Request_poll(i)
    \/ \E i \in 1..MaxRequests : Request_complete(i)

CollectSpec == Init /\ [][CollectNext]_vars

\* A World with the Bot of bot.rs registered for Connected and one more
\* subscriber, registered for RawMessage, a delivery to which may panic: the
\* frames of the stream, the Bot's commands and their results.
BotNext ==
    \/ SendStartListening
    \/ World_handle_StartListening
    \/ \E f \in Frames : World_stream_handle(f)
    \/ World_handle_RawMessage
    \/ Bot_spawn
    \/ SendRegistration("RawMessage", "H2", TRUE)
    \/ World_handle_Registration
    \/ Subscriber_handle("H2")
    \/ Subscriber_fault("H2")
    \/ Bot_handle_Connected
    \/ \E ok \in BOOLEAN : World_handle_Identify(ok)
    \/ \E ok \in BOOLEAN : World_handle_PrivateMessage(ok)
    \/ Mailbox_closed
    \/ Bot_handle_reply

BotSpec == Init /\ [][BotNext]_vars

\* A World under everything it handles besides Quit and signals: frames,
\* the registrations of one subscriber, the commands of a Bot and the Panic
\* a PanicHook sends it.
CountNext ==
    \/ SendStartListening
    \/ World_handle_StartListening
    \/ \E f \in Frames : World_stream_handle(f)
    \/ World_handle_RawMessage
    \/ SendRegistration("Connected", "H1", TRUE)
    \/ World_handle_Registration
    \/ SendCommand("Identify")
    \/ \E ok \in BOOLEAN : World_handle_Identify(ok)
    \/ \E ok \in BOOLEAN : World_handle_PrivateMessage(ok)
    \/ Bot_handle_reply
    \/ PanicHook_new("G1")
    \/ thread_panics
    \/ World_handle_Panic

CountSpec == Init /\ [][CountNext]_vars

\* A Client and its error logger: stream errors, which are sent as Oops::new,
\* and deliveries that panic, which are caught and sent as Oops::fatal.
LoggerNext ==
    \/ \E ops \in CallSeqs(1) : spawn_client(ops)
    \/ Client_handle_Registration
    \/ \E f \in Frames : receive_messages(f)
    \/ receive_error
    \/ Client_handle_RawMessage
    \/ Client_handle_notified
    \/ \E h \in Handles : Subscriber_fault(h)
    \/ \E h \in Handles : Subscriber_handle(h)
    \/ Logger_handle_Oops

LoggerSpec == Init /\ [][LoggerNext]_vars

\* The Client of spawn_client with the subscribers of before_start: the
\* spawned join, the inbound stream and the Client's handlers.
ClientNext ==
    \/ \E ops \in CallSeqs(MaxRequests) : spawn_client(ops)
    \/ Client_handle_Registration
    \/ \E f \in Frames : receive_messages(f)
    \/ receive_error
    \/ Client_handle_RawMessage
    \/ Client_handle_notified
    \/ \E h \in Handles : Subscriber_handle(h)

ClientSpec == Init /\ [][ClientNext]_vars

\* ================================================================ claims
\* The step just taken was the supervisor handling an inbound frame.
FrameStep == last.by \in Impls /\ last.msg.kind = "RawMessage"

\* The step just taken was the supervisor handling a Quit.
QuitStep == last.by \in Impls /\ last.msg.kind = "Quit"

\* The publish calls of the step just taken, as positions of last.pubs.
Pubs == 1..Len(last.pubs)

\* The handles the calls of a publication went to, in the order of the calls.
Targets(p) == [i \in 1..Len(p.sent) |-> p.sent[i].to]

\* How often h occurs in a list of handles.
Occurrences(h, list) == Cardinality({i \in 1..Len(list) : list[i] = h})

\* The list a MessageBox holds for a type, empty when it has no entry.
Listed(box, t) == IF t \in DOMAIN box THEN box[t] ELSE <<>>

\* n copies of one event followed by m copies of another.
Copies(n, a, m, b) == [i \in 1..(n + m) |-> IF i <= n THEN a ELSE b]

\* The supervisor has handled no Registration so far.
NoRegistrationHandled ==
    IF impl = "World"
    THEN nreq = Cardinality({i \in 1..Len(mailbox) :
                                mailbox[i].kind = "Registration"})
    ELSE ~spawned \/ Pending("Registration")

\* C1: Connected is published exactly once in the life of a supervisor: while
\* the first frame is handled, as the first event ever published, and before
\* that frame's RawMessage.
C1_ConnectedOnceAndFirst ==
    /\ count.connected = (IF count.frames >= 1 THEN 1 ELSE 0)
    /\ \A i \in Pubs :
          last.pubs[i].ev.type = "Connected" =>
              /\ FrameStep
              /\ last.pubs[i].frame = 1
              /\ last.pubs[i].seq = 0
    /\ (FrameStep /\ count.frames = 1) =>
          /\ last.pubs # <<>>
          /\ last.pubs[1].ev.type = "Connected"
          /\ \E j \in Pubs :
                /\ j > 1
                /\ last.pubs[j].ev = RawMessage(last.msg.frame)
                /\ last.pubs[j].seq > last.pubs[1].seq

\* A second frame has been handled after the one that published Connected.
C1_Witness ==
    /\ FrameStep
    /\ count.frames = 2
    /\ count.connected = 1
    /\ last.pubs # <<>>

\* C2: a derived event (NotRegistered, PrivateMessageReceived) is published
\* before the RawMessage of the frame it was derived from, in World and in
\* Client: when it is published for the k-th frame, fewer than k RawMessages
\* have been published.
C2_DerivedBeforeRaw ==
    \A i \in Pubs :
        last.pubs[i].ev.type \in {"NotRegistered", "PrivateMessageReceived"}
            => last.pubs[i].raw < last.pubs[i].frame

\* C3: a publish call makes one do_send call per registration of the event's
\* type, in the order of registration, and every one of them is accepted.
C3_DispatchInRegistrationOrder ==
    \A i \in Pubs :
        /\ Targets(last.pubs[i]) = subscribed[last.pubs[i].ev.type]
        /\ \A j \in 1..Len(last.pubs[i].sent) :
              last.pubs[i].sent[j].res = "ok"

\* An event went to H2 and then to H1, registered in that order.
C3_Witness ==
    \E i \in Pubs :
        /\ subscribed[last.pubs[i].ev.type] = <<"H2", "H1">>
        /\ Len(last.pubs[i].sent) = 2

\* C4: when the delivery to a subscriber panics, the subscribers registered
\* after it are still called by the same publish call, exactly one fatal
\* Oops is produced per fault, and the panic does not unwind the supervisor's
\* handler.
C4_FaultIsolated ==
    LET faults == {i \in Pubs : Panicked(last.pubs[i].sent)}
        fatal == {j \in 1..Len(last.oops) : last.oops[j].fatal}
    IN (last.by \in Impls /\ last.msg.kind \in {"RawMessage", "NotifyBot"}) =>
          /\ \A i \in faults :
                Len(last.pubs[i].sent) =
                    Len(subscribed[last.pubs[i].ev.type])
          /\ Cardinality(fatal) = Cardinality(faults)
          /\ ~last.panicked
          /\ ~crashed

\* C5: after any sequence of register and unregister calls the list a
\* MessageBox holds for each type is the list the replay of the calls gives,
\* where register appends the handle and unregister removes the first handle
\* equal to it.
C5_RegistryIsReplayOfHistory ==
    \A t \in Types : Listed(hooks, t) = Replay(history)[t]

\* Calls of both kinds on both types have been made.
C5_Witness ==
    /\ Len(history) = 4
    /\ \E i \in 1..Len(history) : ~history[i].register
    /\ Listed(hooks, "RawMessage") = <<"H2">>
    /\ Listed(hooks, "Connected") = <<"H1">>

\* C6: an unregister call for a handle the type's list does not hold, or for
\* a type with no entry, leaves the whole MessageBox as it was; a call for a
\* handle the list holds removes its first occurrence and nothing else, the
\* other handles keeping their order.
C6_UnregisterFirstOrNothing ==
    [][(Len(history') = Len(history) + 1
          /\ ~history'[Len(history')].register) =>
            LET op == history'[Len(history')]
                old == Listed(hooks, op.type)
                hits == {i \in 1..Len(old) : old[i] = op.recipient}
            IN IF hits = {} THEN hooks' = hooks
               ELSE LET p == CHOOSE i \in hits : \A j \in hits : i <= j
                    IN /\ DOMAIN hooks' = DOMAIN hooks
                       /\ \A x \in DOMAIN hooks \ {op.type} :
                             hooks'[x] = hooks[x]
                       /\ hooks'[op.type] =
                             [i \in 1..(Len(old) - 1) |->
                                 IF i < p THEN old[i] ELSE old[i + 1]]
      ]_vars

\* H1 was registered twice around H2, and its first registration is removed.
C6_Witness ==
    /\ Len(history) = 4
    /\ history[4] = [type |-> "RawMessage", recipient |-> "H1",
                     register |-> FALSE]
    /\ Listed(hooks, "RawMessage") = <<"H2", "H1">>

\* C7: a Registration takes effect when the supervisor handles it.  Until
\* the first is handled no subscriber has been sent anything; a publish call
\* makes as many calls to a handle as registrations of it for the event's
\* type have been handled and not removed since: none for a handle whose
\* request still waits in the mailbox, exactly one for a handle registered
\* once.
C7_RegistrationTakesEffectWhenHandled ==
    /\ NoRegistrationHandled =>
          /\ \A h \in Handles : inbox[h] = <<>>
          /\ \A i \in Pubs : last.pubs[i].sent = <<>>
    /\ \A i \in Pubs, h \in Handles :
          /\ Occurrences(h, Targets(last.pubs[i])) =
                Occurrences(h, subscribed[last.pubs[i].ev.type])
          /\ Occurrences(h, subscribed[last.pubs[i].ev.type]) = 1 =>
                \E j \in 1..Len(last.pubs[i].sent) :
                    /\ last.pubs[i].sent[j] = [to |-> h, res |-> "ok"]
                    /\ \A k \in 1..Len(last.pubs[i].sent) :
                          last.pubs[i].sent[k].to = h => k = j

\* A frame was handled while the request to register H1 for RawMessage was
\* still in the mailbox: its RawMessage went to nobody.
C7_Witness ==
    /\ FrameStep
    /\ \E i \in 1..Len(mailbox) :
          mailbox[i] = Registration("RawMessage", "H1", TRUE)
    /\ \E i \in Pubs :
          /\ last.pubs[i].ev.type = "RawMessage"
          /\ last.pubs[i].sent = <<>>
    /\ inbox["H1"] = <<>>

\* C8: every frame the supervisor handles is published as exactly one
\* RawMessage carrying that frame, sent once per registration for RawMessage;
\* a subscriber registered once, for RawMessage only, holds after the first
\* frame exactly one message, the RawMessage of that frame.
C8_EveryFrameForwardedOnce ==
    /\ count.raw = count.frames
    /\ FrameStep =>
          LET raws == {i \in Pubs : last.pubs[i].ev.type = "RawMessage"}
          IN /\ Cardinality(raws) = 1
             /\ \A i \in raws :
                   /\ last.pubs[i].ev = RawMessage(last.msg.frame)
                   /\ Targets(last.pubs[i]) = subscribed["RawMessage"]
                   /\ \A j \in 1..Len(last.pubs[i].sent) :
                         last.pubs[i].sent[j].res = "ok"
    /\ \A h \in Handles :
          (/\ FrameStep
           /\ count.frames = 1
           /\ Occurrences(h, subscribed["RawMessage"]) = 1
           /\ \A t \in Types \ {"RawMessage"} :
                 Occurrences(h, subscribed[t]) = 0)
             => inbox[h] = <<RawMessage(last.msg.frame)>>

\* A PRIVMSG frame, not the first frame, went as a RawMessage to H1.
C8_Witness ==
    /\ FrameStep
    /\ count.frames = 2
    /\ last.msg.frame = F_PRIVMSG
    /\ subscribed["RawMessage"] = <<"H1">>
    /\ \E i \in Pubs :
          /\ last.pubs[i].ev = RawMessage(F_PRIVMSG)
          /\ last.pubs[i].sent = <<[to |-> "H1", res |-> "ok"]>>

\* C9, as the specification states it: a handle registered for RawMessage
\* has, after the first frame, received Connected and then the frame's
\* RawMessage.
C9_ConnectedThenRawMessage ==
    \A h \in Handles :
        (/\ FrameStep
         /\ count.frames = 1
         /\ Occurrences(h, subscribed["RawMessage"]) >= 1)
           => \E i, j \in 1..Len(inbox[h]) :
                 /\ i < j
                 /\ inbox[h][i] = Connected
                 /\ inbox[h][j] = RawMessage(last.msg.frame)

\* C9, amended: after the first frame a handle holds one Connected per
\* registration of it for Connected, followed by one RawMessage of the frame
\* per registration of it for RawMessage; a handle registered for RawMessage
\* only holds the RawMessage alone.
C9_ConnectedOnlyToItsSubscribers ==
    \A h \in Handles :
        (FrameStep /\ count.frames = 1) =>
            inbox[h] = Copies(Occurrences(h, subscribed["Connected"]),
                              Connected,
                              Occurrences(h, subscribed["RawMessage"]),
                              RawMessage(last.msg.frame))

\* After the first frame the handle registered for RawMessage holds the
\* RawMessage alone, although Connected was sent to the other handle.
C9_Witness ==
    /\ FrameStep
    /\ count.frames = 1
    /\ \E h, g \in Handles :
          /\ h # g
          /\ subscribed["RawMessage"] = <<h>>
          /\ subscribed["Connected"] = <<g>>
          /\ inbox[h] = <<RawMessage(last.msg.frame)>>
          /\ inbox[g] = <<Connected>>

\* C10: handling Quit calls send_quit exactly once, with the reason given,
\* and stops the System with code 0 whether the call succeeded or not; a
\* failure of the call is logged and no fatal error is raised for it.
C10_QuitStopsWithoutEscalation ==
    QuitStep =>
        /\ Len(last.calls) = 1
        /\ last.calls[1].op = "send_quit"
        /\ last.calls[1].arg = last.msg.msg
        /\ last.stop
        /\ system = [running |-> FALSE, code |-> 0]
        /\ ~last.calls[1].ok => last.logs = <<"Unable to quit">>
        /\ \A i \in 1..Len(last.oops) : ~last.oops[i].fatal

\* The step just taken was the supervisor handling a command.
CommandStep == last.by \in Impls /\ last.msg.kind \in Commands

\* The external session failed the call of the step just taken.
CallFailed == \E i \in 1..Len(last.calls) : ~last.calls[i].ok

\* The step just taken was the Bot taking the failure of a command.
FailureTaken ==
    last.by = "Bot" /\ last.msg.kind = "Reply" /\ last.msg.res = "Err"

\* C11: when the external session fails a send_private_message, join or
\* identify command, the supervisor logs a non-fatal diagnostic (in its log
\* or as a non-fatal Oops), returns the failure to the caller, and nothing is
\* stopped as a consequence: not in the handler, and not by the caller that
\* takes the failure.
C11_CommandFailureLoggedAndReturned ==
    /\ (CommandStep /\ CallFailed) =>
          /\ \/ last.logs # <<>>
             \/ \E i \in 1..Len(last.oops) : ~last.oops[i].fatal
          /\ last.reply = "Err"
          /\ ~last.stop
          /\ ~last.stop_arbiter
          /\ Running
    /\ FailureTaken => (~last.stop_arbiter /\ arbiter.running)

\* The step just taken was the World handling a StartListening.
StartStep == last.by = "World" /\ last.msg.kind = "StartListening"

\* C12: start_listening attaches the inbound stream at most once: a World
\* never holds a second inbound stream, and a repeated StartListening is
\* answered with an error, not with a panic that ends the World.
C12_SecondStartRejected ==
    /\ listening <= 1
    /\ StartStep => (~last.panicked /\ ~crashed)

\* C13: whatever the order in which PanicHook guards are made and released,
\* the hook of a released guard is not the installed process-wide handler,
\* and once no guard is live the installed handler is the one in place
\* before the first guard was made.
C13_ReleasedHookNotInstalled ==
    /\ hook \in Guards => guards[hook].state # "dropped"
    /\ (\A g \in Guards : guards[g].state # "live") => hook = "default"

\* The step just taken was a consumer of Panic handling one.
PanicStep == last.by \in {"World", "Logger"} /\ last.msg.kind = "Panic"

\* C14: whenever a Panic reaches its consumer (the World, or the Logger the
\* panic hook is wired to), it is logged and then the hosting execution
\* context is told to stop.
C14_PanicLoggedThenStopped ==
    PanicStep => /\ last.logs = <<"A thread panicked">>
                 /\ last.stop_arbiter
                 /\ ~arbiter.running

\* The step just taken handled a quit request, an OS signal, a Panic or a
\* fatal Oops.
StopCause ==
    \/ last.by \in Impls /\ last.msg.kind \in {"Quit", "Signal"}
    \/ last.by \in {"World", "Logger"} /\ last.msg.kind = "Panic"
    \/ last.by = "Logger" /\ last.msg.kind = "Oops" /\ last.msg.fatal

\* C15: a step that stops the System or the Arbiter hosting the supervisor is
\* the handling of a quit request, of an OS signal, of a Panic or of a fatal
\* Oops; the handling of anything else, a failed command included, stops
\* neither.
C15_StoppedOnlyByQuitSignalOrFatal ==
    [][(system'.running # system.running
        \/ arbiter'.running # arbiter.running) => StopCause']_vars

\* A delivery of the step just taken failed: the subscriber's mailbox was
\* closed and do_send returned the error.
DeliveryFailed ==
    \E i \in Pubs : \E j \in 1..Len(last.pubs[i].sent) :
        last.pubs[i].sent[j].res = "closed"

\* C16: no failure is discarded: a step in which a delivery of the fan-out
\* fails leaves a log line or sends an Oops about it.
C16_FailedDeliveryReported ==
    DeliveryFailed => (last.logs # <<>> \/ last.oops # <<>>)

\* C17: a failure of the inbound stream takes the fatal-error path: the Oops
\* sent for it is fatal, and when the Logger has handled it the System is
\* stopped.
C17_StreamFailureIsFatal ==
    /\ \A i \in 1..Len(oops) :
          (oops[i].kind = "Oops" /\ oops[i].context = "stream")
              => oops[i].fatal
    /\ (last.by = "Logger" /\ last.logs = <<"stream">>)
          => (last.stop /\ ~system.running)

\* C18: whatever register and unregister calls were applied, no list of the
\* registry holds a handle twice.
C18_NoDuplicateHandle ==
    \A t \in DOMAIN hooks : \A h \in Handles :
        Occurrences(h, hooks[t]) <= 1

\* The step just taken was a World applying a Registration<M>.
RegistrationStep == last.by = "World" /\ last.msg.kind = "Registration"

\* C19: event types do not interfere.  A register or unregister for type T
\* leaves the list of every other type as it was; a publication changes no
\* list, and each of its deliveries goes to a handle listed for the type of
\* the event, so never to a handle registered for other types only.
C19_TypesDoNotInterfere ==
    /\ RegistrationStep =>
          \A x \in Types \ {last.msg.type} :
              Listed(hooks, x) = Listed(last.before, x)
    /\ last.pubs # <<>> => hooks = last.before
    /\ \A i \in Pubs : \A j \in 1..Len(last.pubs[i].sent) :
          Occurrences(last.pubs[i].sent[j].to,
                      Listed(hooks, last.pubs[i].ev.type)) > 0

\* H1 is registered for Connected only and H2 for RawMessage only, and the
\* frame just handled sent Connected to H1 alone and the RawMessage to H2
\* alone.
C19_Witness ==
    /\ Listed(hooks, "Connected") = <<"H1">>
    /\ Listed(hooks, "RawMessage") = <<"H2">>
    /\ \E i \in Pubs : /\ last.pubs[i].ev.type = "Connected"
                       /\ Targets(last.pubs[i]) = <<"H1">>
    /\ \E i \in Pubs : /\ last.pubs[i].ev.type = "RawMessage"
                       /\ Targets(last.pubs[i]) = <<"H2">>

\* The publications of the step just taken for which the event's type had
\* no subscriber: no entry for the type, or an empty one.
Unheard == {i \in Pubs : Listed(hooks, last.pubs[i].ev.type) = <<>>}

\* C20: publishing an event whose type has no subscriber makes no delivery,
\* leaves the registry as it was and raises no error: no panic, no Oops, and
\* the supervisor goes on.
C20_PublishToNobodyIsNoOp ==
    /\ \A i \in Unheard : last.pubs[i].sent = <<>>
    /\ Unheard # {} => /\ hooks = last.before
                       /\ ~last.panicked
                       /\ ~crashed
                       /\ last.oops = <<>>
                       /\ last.logs = <<>>

\* A World whose entry for RawMessage was emptied by an unregister has
\* published a RawMessage, and a Connected for which it has no entry at all.
C20_Witness ==
    /\ "RawMessage" \in DOMAIN hooks
    /\ hooks["RawMessage"] = <<>>
    /\ "Connected" \notin DOMAIN hooks
    /\ \E i \in Unheard : last.pubs[i].ev.type = "RawMessage"
    /\ \E i \in Unheard : last.pubs[i].ev.type = "Connected"

\* The requests of the collecting broadcast whose copy has been sent.
Asked == {i \in 1..Len(collect.pending) : collect.pending[i].state # "made"}

\* The requests of the collecting broadcast whose result has been yielded.
Answered == {i \in 1..Len(collect.pending) : collect.pending[i].state = "done"}

\* The copies of the i-th request waiting in subscriber h's mailbox.
CopiesWaiting(i, h) ==
    {k \in 1..Len(inbox[h]) : /\ "request" \in DOMAIN inbox[h][k]
                              /\ inbox[h][k].request = i}

\* C21: the collecting broadcast makes one request per registration of the
\* event's type, in the step of the call and without changing the registry;
\* each request sends one copy to its handle and yields one result, results
\* coming in any order; when every request is answered the results are one
\* per registration, and with no registration there is no request and no
\* result.
C21_OneResultPerRegistration ==
    /\ (last.by = "World" /\ last.msg.kind = "DummyMessage") =>
          /\ hooks = last.before
          /\ Len(collect.pending) = Len(Listed(hooks, collect.type))
          /\ \A i \in 1..Len(collect.pending) :
                collect.pending[i].to = Listed(hooks, collect.type)[i]
    /\ \A i \in 1..Len(collect.pending) : \A h \in Handles :
          Cardinality(CopiesWaiting(i, h)) =
              IF i \in Asked \ Answered /\ h = collect.pending[i].to
              THEN 1 ELSE 0
    /\ Len(collect.results) = Cardinality(Answered)
    /\ \A i \in Answered :
          Cardinality({k \in 1..Len(collect.results) :
                          collect.results[k] =
                              [request |-> i, from |-> collect.pending[i].to,
                               res |-> "Ok"]}) = 1

\* H1 and then H2 were registered for the type of the broadcast, both were
\* asked, and the result of H2 was yielded before the result of H1.
C21_Witness ==
    /\ Len(collect.pending) = 2
    /\ collect.pending[1].to = "H1"
    /\ collect.pending[2].to = "H2"
    /\ Len(collect.results) = 2
    /\ collect.results[1].from = "H2"
    /\ collect.results[2].from = "H1"

\* The step just taken was the World handling an OS signal.
SignalStep == last.by = "World" /\ last.msg.kind = "Signal"

\* What a signal and a quit request have in common: the session's quit is
\* attempted exactly once, the System is then stopped with code 0 whether or
\* not the attempt succeeded, and a failure is logged and nothing more.
HandledLikeQuit ==
    /\ Len(last.calls) = 1
    /\ last.calls[1].op = "send_quit"
    /\ last.stop
    /\ system = System_stop
    /\ last.logs # <<>> <=> ~last.calls[1].ok
    /\ last.oops = <<>>
    /\ ~last.stop_arbiter
    /\ ~last.panicked

\* C22 as stated: an OS signal is handled like quit, except that the session
\* is given no disconnect reason.
C22_SignalQuitsWithoutReason ==
    SignalStep => (HandledLikeQuit /\ last.calls[1].arg = "None")

\* C22, amended: an OS signal is handled like quit, the reason given to the
\* session being the fixed string "Leaving...".
C22_SignalQuitsWithFixedReason ==
    SignalStep => (HandledLikeQuit /\ last.calls[1].arg = "Leaving...")

\* A signal was handled and the session failed the quit.
C22_Witness == SignalStep /\ ~last.calls[1].ok /\ ~system.running

\* No handle is registered for any type.
NobodyRegistered == \A t \in Types : Listed(hooks, t) = <<>>

\* C23: a registry is empty at creation, the first register makes its size
\* 1, and whenever every registered handle has been unregistered it is empty
\* again: is_empty() is true and len() is 0.
C23_EmptyAgainAfterUnregister ==
    /\ history = <<>> => (is_empty(hooks) /\ len(hooks) = 0)
    /\ (Len(history) = 1 /\ history[1].register) => len(hooks) = 1
    /\ NobodyRegistered => (is_empty(hooks) /\ len(hooks) = 0)

\* The publications of the step just taken that carry a derived event.
Derived == {i \in Pubs : last.pubs[i].ev.type \notin {"Connected", "RawMessage"}}

\* C24: the derived events a World publishes for a frame are determined by
\* the frame's command: for ERR_NOTREGISTERED exactly one NotRegistered with
\* the frame's args and suffix, for PRIVMSG exactly one
\* PrivateMessageReceived with the frame's target, content and the frame
\* itself, and for any other command none; in each case the RawMessage is
\* published, with Connected before it on the first frame only, and no error
\* is raised.
C24_DerivedByCommandAlone ==
    (FrameStep /\ last.by = "World") =>
        LET f == last.msg.frame
        IN /\ f.command = "ERR_NOTREGISTERED" =>
                /\ Cardinality(Derived) = 1
                /\ \A i \in Derived :
                      /\ last.pubs[i].ev.type = "NotRegistered"
                      /\ last.pubs[i].ev.payload =
                            [args |-> f.args, suffix |-> f.suffix]
           /\ f.command = "PRIVMSG" =>
                /\ Cardinality(Derived) = 1
                /\ \A i \in Derived :
                      /\ last.pubs[i].ev.type = "PrivateMessageReceived"
                      /\ last.pubs[i].ev.payload =
                            [msg_target |-> f.args[1], content |-> f.args[2],
                             raw |-> f]
           /\ f.command \notin {"ERR_NOTREGISTERED", "PRIVMSG"} =>
                Derived = {}
           /\ Len(last.pubs) = Cardinality(Derived) + 1
                               + (IF count.frames = 1 THEN 1 ELSE 0)
           /\ last.pubs[Len(last.pubs)].ev.type = "RawMessage"
           /\ count.frames = 1 <=> last.pubs[1].ev.type = "Connected"
           /\ ~last.panicked /\ ~crashed
           /\ last.oops = <<>> /\ last.logs = <<>>

\* A World has handled a PRIVMSG as its second frame and published a
\* PrivateMessageReceived and the RawMessage for it.
C24_Witness ==
    /\ FrameStep
    /\ last.by = "World"
    /\ count.frames = 2
    /\ last.msg.frame = F_PRIVMSG
    /\ Len(last.pubs) = 2
    /\ last.pubs[1].ev.type = "PrivateMessageReceived"

C26_MessageCountCountsFrames ==
    impl = "World" => (message_count = count.frames /\ message_count <= nframes)

\* A World that has handled two frames handles a Panic after them, and
\* message_count is 2.
C26_Witness ==
    /\ PanicStep
    /\ last.by = "World"
    /\ message_count = 2
    /\ Listed(hooks, "Connected") # <<>>

\* The step just taken was the Logger handling an Oops.
OopsStep == last.by = "Logger" /\ last.msg.kind = "Oops"

\* C27: the Logger logs every Oops it handles, and it stops the System when
\* and only when the Oops is fatal: after a non-fatal Oops the System is
\* still running.
C27_LoggerStopsIffFatal ==
    OopsStep => /\ last.logs # <<>>
                /\ last.stop <=> last.msg.fatal
                /\ system.running <=> ~last.msg.fatal
                /\ last.msg.fatal => system = System_stop
                /\ arbiter.running

\* The Logger has handled a non-fatal Oops and the System runs.
C27_Witness ==
    /\ OopsStep
    /\ ~last.msg.fatal
    /\ last.logs = <<"stream">>
    /\ system.running

\* The commands of the given kind waiting in the World's mailbox.
Waiting(q, kind) == Cardinality({i \in 1..Len(q) : q[i].kind = kind})

\* The step handed msg to the World: it waits at the end of the mailbox, or,
\* the World having been ended by a panic, a MailboxError came back at once.
SentToWorld(msg) ==
    IF crashed
    THEN /\ mailbox' = mailbox
         /\ replies'[Len(replies')] = [cmd |-> msg.kind, res |-> "MailboxError"]
    ELSE mailbox' = Append(mailbox, msg)

\* The step is the Bot taking the reply to cmd, the reply being res.
BotTakes(cmd, res) ==
    /\ last'.by = "Bot"
    /\ last'.msg = [kind |-> "Reply", cmd |-> cmd, res |-> res]

\* C28: on each Connected the Bot sends Identify; it sends the NickServ
\* message "IDENTIFY <password>" in the step in which Identify comes back Ok,
\* and in no other step; when Identify or the private message comes back
\* with the session's error or with a MailboxError, the Bot sends nothing
\* more, logs the failure and stops its Arbiter with code 1.
C28_IdentifyThenNickServ ==
    [][/\ (last'.by = "Bot" /\ last'.msg.kind = "Connected") =>
             (SentToWorld([kind |-> "Identify"]) /\ arbiter' = arbiter)
       /\ BotTakes("Identify", "Ok") =>
             (SentToWorld(NickServ_identify) /\ arbiter' = arbiter)
       /\ BotTakes("PrivateMessage", "Ok") =>
             (mailbox' = mailbox /\ replies' = Tail(replies)
              /\ arbiter' = arbiter)
       /\ \A cmd \in {"Identify", "PrivateMessage"} :
          \A res \in {"Err", "MailboxError"} :
             BotTakes(cmd, res) =>
                 /\ mailbox' = mailbox
                 /\ replies' = Tail(replies)
                 /\ arbiter' = StopArbiter(1)
                 /\ last'.logs = <<"Unable to identify">>
       /\ Waiting(mailbox', "PrivateMessage") > Waiting(mailbox, "PrivateMessage")
             => BotTakes("Identify", "Ok")
       /\ Waiting(mailbox', "Identify") > Waiting(mailbox, "Identify")
             => (last'.by = "Bot" /\ last'.msg.kind = "Connected")
       /\ ~arbiter.running => (mailbox' = mailbox /\ arbiter' = arbiter)
      ]_vars

\* Identify has come back Ok and the NickServ message waits in the World's
\* mailbox.
C28_Witness ==
    /\ last.by = "Bot"
    /\ last.msg = [kind |-> "Reply", cmd |-> "Identify", res |-> "Ok"]
    /\ mailbox # <<>>
    /\ mailbox[Len(mailbox)] = NickServ_identify

\* The Connected events waiting in a subscriber's mailbox.
ConnectedWaiting(q) == Cardinality({i \in 1..Len(q) : q[i].type = "Connected"})

\* C29: once the first inbound frame has been handled no step puts a
\* Connected in any subscriber's mailbox, whatever is registered and whatever
\* frames follow: a subscriber registered from then on never receives it.
C29_ConnectedNotReplayed ==
    [][count.frames >= 1 =>
          \A h \in Handles :
              ConnectedWaiting(inbox'[h]) <= ConnectedWaiting(inbox[h])]_vars

\* The registration of H1 for Connected, the first for that type, is handled
\* after the first frame was, and another frame is waiting.
C29_Witness ==
    /\ RegistrationStep
    /\ last.msg.type = "Connected"
    /\ last.msg.register
    /\ Listed(last.before, "Connected") = <<>>
    /\ Listed(hooks, "Connected") = <<"H1">>
    /\ count.frames >= 1
    /\ notified # <<>>

\* C30: in spawn_client the Registration of before_start reaches the Client's
\* mailbox ahead of every RawMessage and is handled while no frame has been
\* handled, however the stream's items fall between the send and the
\* handling; when the Client has handled its first frame, every handle that
\* before_start registered for Connected has one Connected per registration
\* in its mailbox.
C30_RegistrationBeforeFirstFrame ==
    impl = "Client" =>
        /\ Pending("RawMessage") => spawned
        /\ Pending("Registration") =>
              /\ Head(mailbox).kind = "Registration"
              /\ message_count = 0
              /\ hooks = MessageBox_new
        /\ (last.by = "Client" /\ last.msg.kind = "Registration") =>
              /\ hooks = BuildBox(last.msg.ops)
              /\ message_count = 0
        /\ (FrameStep /\ count.frames = 1) =>
              \A h \in Handles :
                  ConnectedWaiting(inbox[h])
                      = Occurrences(h, Listed(hooks, "Connected"))

\* The Client has handled its first frame, before_start having registered H1
\* for Connected once, and H1 has its Connected.
C30_Witness ==
    /\ impl = "Client"
    /\ FrameStep
    /\ count.frames = 1
    /\ Listed(hooks, "Connected") = <<"H1">>
    /\ ConnectedWaiting(inbox["H1"]) = 1

====
